---- MODULE Spec2Model ----
(***************************************************************************)
(* A model of src/service-worker.js: the install / activate lifecycle, the *)
(* cache-first fetch handler, checkForUpdates, doBackgroundSync and the    *)
(* message handler, over a small universe of URLs, responses and clients.  *)
(*                                                                         *)
(* A URL is a sequence of tokens, its string being their concatenation:    *)
(* <<scheme, host, path tokens...>> for an absolute URL, <<"/", ...>> for  *)
(* a path-only one as written in STATIC_ASSETS.                            *)
(***************************************************************************)
EXTENDS Naturals, Sequences, FiniteSets

\* ------------------------------------------------------------ constants

CACHE_NAME == "logo-package-generator-v1.0.0"
STATIC_CACHE == "static-v1"
DYNAMIC_CACHE == "dynamic-v1"

\* self.location.origin, as <<scheme, host>>
Origin == <<"https://", "logogen.app">>

RootUrl == <<"https://", "logogen.app", "/">>
ManifestUrl == <<"https://", "logogen.app", "/", "manifest.json">>
DataUrl == <<"https://", "logogen.app", "/", "data.json">>
\* a page of the application itself whose path holds the word "extension"
ExtPageUrl == <<"https://", "logogen.app", "/", "extension", "-guide.html">>
CdnCssUrl == <<"https://", "cdnjs.cloudflare.com", "/", "all.min.css">>
WoffUrl == <<"https://", "cdnjs.cloudflare.com", "/", "fa-solid-900.woff2">>
ApiUrl == <<"https://", "api.openai.com", "/", "v1">>
ChromeExtUrl == <<"chrome-extension://", "abcdef", "/", "inject.js">>
OtherUrl == <<"https://", "other.example", "/", "img.png">>

\* The lists of the source, shortened to one entry of each kind they hold:
\* path-only first-party entries and an absolute third-party one.
STATIC_ASSETS == << <<"/">>, <<"/", "manifest.json">>, CdnCssUrl >>
EXTERNAL_RESOURCES == << WoffUrl >>

AllUrls ==
  {RootUrl, ManifestUrl, DataUrl, ExtPageUrl, CdnCssUrl, WoffUrl, ApiUrl,
   ChromeExtUrl, OtherUrl}

\* ------------------------------------------------------------ strings, URLs

\* The substrings of a token that the handlers look for.
SubstringsOf(tok) ==
  IF tok = "chrome-extension://" THEN {tok, "extension"} ELSE {tok}

\* String.prototype.includes / startsWith on a URL's string
Includes(url, needle) == \E i \in DOMAIN url : needle \in SubstringsOf(url[i])
StartsWith(url, prefix) == Len(url) > 0 /\ url[1] = prefix

\* Array.prototype.includes: strict equality with an element
ArrayIncludes(arr, x) == \E i \in DOMAIN arr : arr[i] = x

\* new URL(u).origin
OriginOf(url) == SubSeq(url, 1, 2)

\* The absolute URL a Request is built for: a path-only one resolves against
\* the worker's origin.
Resolve(u) == IF StartsWith(u, "/") THEN Origin \o u ELSE u

\* ------------------------------------------------------------ responses

StatusOk == 200
\* The entity tags the server hands out are 1..MaxTag; headers.get('etag') of
\* a response without the header is null, written NoTag.
MaxTag == 2
NoTag == 0
ETags == {NoTag} \cup (1 .. MaxTag)

Resp(s, t, e) == [status |-> s, type |-> t, etag |-> e]
NoEntry == Resp(0, "absent", NoTag)
Opaque == Resp(0, "opaque", NoTag)

NetErrors == {"TypeError", "AbortError"}

\* What the network can answer for a URL: a same-origin response is of type
\* basic, a cross-origin one of type cors, or opaque to a no-cors request.
TypeFor(url) == IF OriginOf(url) = Origin THEN "basic" ELSE "cors"
NetResponses(url) ==
  {Resp(StatusOk, TypeFor(url), e) : e \in ETags}
    \cup {Resp(404, TypeFor(url), NoTag)}
    \cup (IF OriginOf(url) = Origin THEN {} ELSE {Opaque})
\* fetch(url) of a string is a cors request: never opaque
CorsResponses(url) == NetResponses(url) \ {Opaque}
IsOk(resp) == resp.status = StatusOk

\* ------------------------------------------------------------ state

OldStatic == "static-v0"
OldDynamic == "dynamic-v0"
AllNames == {STATIC_CACHE, DYNAMIC_CACHE, OldStatic, OldDynamic}

\* the open pages of the application
MaxClients == 2
Clients == 1 .. MaxClients
\* the fetch events the host runs at the same time
Slots == {1, 2}

VARIABLES
  swState,      \* the worker's state as the host sees it
  cacheNames,   \* caches.keys(): the namespaces, in creation order
  store,        \* namespace -> request URL -> stored response, or NoEntry
  instPc, instResult, installFailed, skipWaiting,
  actPc, actNames, actStore, actPending, actFailed, actResult,
  claimed, controlled,
  log,          \* what the lifecycle and background handlers wrote to the console
  slot,         \* the fetch events in flight
  rc,           \* the checkForUpdates pass in flight
  inbox,        \* client -> the messages the pass in flight has posted to it
  bs,           \* the doBackgroundSync call in flight
  reply         \* what the message handler last posted on ports[0]

vars ==
  <<swState, cacheNames, store, instPc, instResult, installFailed, skipWaiting,
    actPc, actNames, actStore, actPending, actFailed, actResult, claimed,
    controlled, log, slot, rc, inbox, bs, reply>>

EmptyCache == [k \in AllUrls |-> NoEntry]
EmptyStore == [n \in AllNames |-> EmptyCache]

SeqToSet(s) == {s[i] : i \in DOMAIN s}

\* caches.open(name): creates the namespace when absent
Opened(names, name) ==
  IF name \in SeqToSet(names) THEN names ELSE Append(names, name)

\* caches.delete(name)
Removed(names, name) == SelectSeq(names, LAMBDA n : n # name)

\* ------------------------------------------------------------ initial states

\* A good first-party response, as an earlier installation stored it.
Stored(url) == Resp(StatusOk, TypeFor(url), 1)

ManifestKeys ==
  {Resolve(STATIC_ASSETS[i]) : i \in DOMAIN STATIC_ASSETS}
    \cup {Resolve(EXTERNAL_RESOURCES[i]) : i \in DOMAIN EXTERNAL_RESOURCES}

OldStaticCache == [EmptyCache EXCEPT ![RootUrl] = Stored(RootUrl)]
OldDynamicCache == [EmptyCache EXCEPT ![DataUrl] = Stored(DataUrl)]
FullStaticCache ==
  [k \in AllUrls |-> IF k \in ManifestKeys THEN Stored(k) ELSE NoEntry]

\* The registries an earlier version of the worker can have left behind when
\* this one starts installing.
InstallRegistries ==
  { [names |-> <<>>, store |-> EmptyStore],
    [names |-> <<OldStatic, OldDynamic>>,
     store |-> [EmptyStore EXCEPT ![OldStatic] = OldStaticCache,
                                  ![OldDynamic] = OldDynamicCache]],
    [names |-> <<DYNAMIC_CACHE, OldStatic>>,
     store |-> [EmptyStore EXCEPT ![DYNAMIC_CACHE] = OldDynamicCache,
                                  ![OldStatic] = OldStaticCache]] }

\* The registries the worker can find when the host starts it again while it
\* is the active one: what its own installation and activation left.
RunningRegistries ==
  { [names |-> <<STATIC_CACHE>>, store |-> EmptyStore],
    [names |-> <<STATIC_CACHE>>,
     store |-> [EmptyStore EXCEPT ![STATIC_CACHE] = FullStaticCache]],
    [names |-> <<DYNAMIC_CACHE, STATIC_CACHE>>,
     store |-> [EmptyStore EXCEPT ![DYNAMIC_CACHE] = OldDynamicCache,
                                  ![STATIC_CACHE] = FullStaticCache]],
    [names |-> <<OldStatic, STATIC_CACHE>>,
     store |-> [EmptyStore EXCEPT ![OldStatic] = OldStaticCache,
                                  ![STATIC_CACHE] = FullStaticCache]] }

NoResult == [kind |-> "none", resp |-> NoEntry, err |-> ""]
IdleSlot ==
  [pc |-> "idle", method |-> "GET", url |-> RootUrl, route |-> "none",
   net |-> NoResult, result |-> NoResult, netCalls |-> 0, storeFail |-> "none",
   logged |-> {}, unhandled |-> FALSE]
\* differs, fetchFailed and putFailed are the record of the pass: the assets
\* it saw to differ from the cached copy, those whose fetch was rejected and
\* those whose cache.put was rejected
IdleRc ==
  [pc |-> "idle", idx |-> 1, net |-> NoResult, updatedAssets |-> <<>>,
   differs |-> <<>>, fetchFailed |-> <<>>, putFailed |-> <<>>]
IdleBs == [pc |-> "idle"]
NoReply == [version |-> "", cacheName |-> ""]

InitCommon ==
  /\ installFailed = FALSE
  /\ skipWaiting = FALSE
  /\ actNames = <<>>
  /\ actStore = EmptyStore
  /\ actPending = {}
  /\ actFailed = {}
  /\ claimed = FALSE
  /\ log = {}
  /\ slot = [i \in Slots |-> IdleSlot]
  /\ rc = IdleRc
  /\ inbox = [c \in Clients |-> <<>>]
  /\ bs = IdleBs
  /\ reply = NoReply

\* the script has been evaluated for a new registration or an update
InitInstalling ==
  /\ swState = "installing"
  /\ instPc = "start" /\ instResult = "pending"
  /\ actPc = "start" /\ actResult = "pending"
  /\ controlled = {}
  /\ \E r \in InstallRegistries : cacheNames = r.names /\ store = r.store
  /\ InitCommon

\* the host has started the active worker again to deliver an event
InitRunning ==
  /\ swState = "activated"
  /\ instPc = "done" /\ instResult = "fulfilled"
  /\ actPc = "done" /\ actResult = "fulfilled"
  /\ controlled \in {{1}, Clients}
  /\ \E r \in RunningRegistries : cacheNames = r.names /\ store = r.store
  /\ InitCommon

Init == InitInstalling \/ InitRunning

\* ------------------------------------------------------------ install

\* cache.addAll(requests): each request is fetched; a failed fetch or a
\* response that is not ok rejects the whole call and stores nothing.
AddAllOutcomes ==
  [ManifestKeys -> UNION {CorsResponses(k) : k \in ManifestKeys} \cup {NoEntry}]
AddAllFetched(f) ==
  \A k \in ManifestKeys : f[k] = NoEntry \/ f[k] \in CorsResponses(k)
AddAllOk(f) == \A k \in ManifestKeys : f[k] # NoEntry /\ IsOk(f[k])

\* line 37: the catch of the install chain logs and returns, so the promise
\* given to event.waitUntil is fulfilled
InstallCatch == "fulfilled"

\* a handler that calls self.skipWaiting() before it starts caching
InstallOpen_SkipWaitingFirst ==
  /\ swState = "installing" /\ instPc = "start"
  /\ skipWaiting' = TRUE
  /\ \/ /\ cacheNames' = Opened(cacheNames, STATIC_CACHE)
        /\ instPc' = "opened"
        /\ UNCHANGED <<instResult, installFailed, log>>
     \/ /\ instPc' = "done"
        /\ installFailed' = TRUE
        /\ instResult' = InstallCatch
        /\ log' = log \cup {"Installation failed"}
        /\ UNCHANGED cacheNames
  /\ UNCHANGED <<swState, store, actPc, actNames, actStore,
                 actPending, actFailed, actResult, claimed, controlled,
                 slot, rc, inbox, bs, reply>>

\* lines 28: caches.open(STATIC_CACHE)
InstallOpen ==
  /\ swState = "installing" /\ instPc = "start"
  /\ \/ /\ cacheNames' = Opened(cacheNames, STATIC_CACHE)
        /\ instPc' = "opened"
        /\ UNCHANGED <<instResult, installFailed, log>>
     \/ /\ instPc' = "done"
        /\ installFailed' = TRUE
        /\ instResult' = InstallCatch
        /\ log' = log \cup {"Installation failed"}
        /\ UNCHANGED cacheNames
  /\ UNCHANGED <<swState, store, skipWaiting, actPc, actNames, actStore,
                 actPending, actFailed, actResult, claimed, controlled,
                 slot, rc, inbox, bs, reply>>

\* lines 29-32 and 37-39: cache.addAll([...STATIC_ASSETS, ...EXTERNAL_RESOURCES])
InstallAddAll ==
  /\ swState = "installing" /\ instPc = "opened"
  /\ \E f \in AddAllOutcomes :
       /\ AddAllFetched(f)
       /\ \/ /\ AddAllOk(f)
             /\ store' = [store EXCEPT ![STATIC_CACHE] =
                            [k \in AllUrls |->
                               IF k \in ManifestKeys THEN f[k] ELSE @[k]]]
             /\ instPc' = "added"
             /\ UNCHANGED <<instResult, installFailed, log>>
          \/ /\ instPc' = "done"
             /\ installFailed' = TRUE
             /\ instResult' = InstallCatch
             /\ log' = log \cup {"Installation failed"}
             /\ UNCHANGED store
  /\ UNCHANGED <<swState, cacheNames, skipWaiting, actPc, actNames, actStore,
                 actPending, actFailed, actResult, claimed, controlled,
                 slot, rc, inbox, bs, reply>>

\* lines 33-36: self.skipWaiting()
InstallSkipWaiting ==
  /\ swState = "installing" /\ instPc = "added"
  /\ skipWaiting' = TRUE
  /\ instPc' = "done"
  /\ instResult' = "fulfilled"
  /\ UNCHANGED <<swState, cacheNames, store, installFailed, actPc, actNames,
                 actStore, actPending, actFailed, actResult, claimed,
                 controlled, log, slot, rc, inbox, bs, reply>>

\* The host settles the install event: a fulfilled waitUntil promise makes
\* the worker installed, a rejected one makes it redundant.
HostInstalled ==
  /\ swState = "installing" /\ instResult # "pending"
  /\ swState' = IF instResult = "fulfilled" THEN "installed" ELSE "redundant"
  /\ UNCHANGED <<cacheNames, store, instPc, instResult, installFailed,
                 skipWaiting, actPc, actNames, actStore, actPending, actFailed,
                 actResult, claimed, controlled, log, slot, rc,
                 inbox, bs, reply>>

\* The host promotes the installed worker and dispatches activate.
HostActivate ==
  /\ swState = "installed"
  /\ swState' = "activating"
  /\ UNCHANGED <<cacheNames, store, instPc, instResult, installFailed,
                 skipWaiting, actPc, actNames, actStore, actPending, actFailed,
                 actResult, claimed, controlled, log, slot, rc,
                 inbox, bs, reply>>

\* ------------------------------------------------------------ activate

\* a filter that keeps the STATIC namespace alone
IsStale_KeepsStaticOnly(cache) == cache # STATIC_CACHE

\* a filter that deletes the older STATIC namespaces only
IsStale_OldStaticOnly(cache) ==
  cache # STATIC_CACHE /\ cache # DYNAMIC_CACHE /\ cache # OldDynamic

\* line 52
IsStale(cache) == cache # STATIC_CACHE /\ cache # DYNAMIC_CACHE

\* lines 48-57: caches.keys(), then caches.delete is called for every stale
\* name in one synchronous map; Promise.all waits for the deletes.
ActivateKeys ==
  /\ swState = "activating" /\ actPc = "start"
  /\ actNames' = cacheNames
  /\ actStore' = store
  /\ actPending' = {n \in SeqToSet(cacheNames) : IsStale(n)}
  /\ actPc' = "deleting"
  /\ UNCHANGED <<swState, cacheNames, store, instPc, instResult, installFailed,
                 skipWaiting, actFailed, actResult, claimed, controlled, log,
                 slot, rc, inbox, bs, reply>>

\* line 54: one caches.delete(cache) settles. A rejection rejects the
\* Promise.all, and with it the promise given to event.waitUntil: the chain
\* has no catch, and the then of lines 59-62 is skipped.
ActivateDelete(n) ==
  /\ actPc = "deleting" /\ n \in actPending
  /\ actPending' = actPending \ {n}
  /\ \/ /\ cacheNames' = Removed(cacheNames, n)
        /\ store' = [store EXCEPT ![n] = EmptyCache]
        /\ UNCHANGED <<actFailed, actResult>>
     \/ /\ actFailed' = actFailed \cup {n}
        /\ actResult' = "rejected"
        /\ UNCHANGED <<cacheNames, store>>
  /\ UNCHANGED <<swState, instPc, instResult, installFailed, skipWaiting,
                 actPc, actNames, actStore, claimed, controlled, log,
                 slot, rc, inbox, bs, reply>>

\* lines 59-62: every delete was fulfilled: self.clients.claim()
ActivateClaim ==
  /\ actPc = "deleting" /\ actPending = {} /\ actFailed = {}
  /\ claimed' = TRUE
  /\ controlled' = Clients
  /\ actResult' = "fulfilled"
  /\ actPc' = "done"
  /\ UNCHANGED <<swState, cacheNames, store, instPc, instResult, installFailed,
                 skipWaiting, actNames, actStore, actPending, actFailed, log,
                 slot, rc, inbox, bs, reply>>

\* The host settles the activate event: the worker becomes activated whether
\* the waitUntil promise was fulfilled or rejected.
HostActivated ==
  /\ swState = "activating" /\ actResult # "pending"
  /\ swState' = "activated"
  /\ UNCHANGED <<cacheNames, store, instPc, instResult, installFailed,
                 skipWaiting, actPc, actNames, actStore, actPending, actFailed,
                 actResult, claimed, controlled, log, slot, rc,
                 inbox, bs, reply>>

NextLifecycle ==
  \/ InstallOpen
  \/ InstallAddAll
  \/ InstallSkipWaiting
  \/ HostInstalled
  \/ HostActivate
  \/ ActivateKeys
  \/ \E n \in AllNames : ActivateDelete(n)
  \/ ActivateClaim
  \/ HostActivated

SpecLifecycle == Init /\ [][NextLifecycle]_vars

\* ------------------------------------------------------------ fetch

\* the requests the pages make
Requests ==
  {[method |-> "GET", url |-> u] : u \in AllUrls \ {ManifestUrl}}
    \cup {[method |-> "POST", url |-> u] : u \in {DataUrl, ApiUrl}}

\* a handler that forgets the method
IsSkipped_AnyMethod(method, url) ==
  \/ StartsWith(url, "chrome-extension://")
  \/ Includes(url, "extension")

\* lines 69-71
IsSkipped(method, url) ==
  \/ method # "GET"
  \/ StartsWith(url, "chrome-extension://")
  \/ Includes(url, "extension")

\* a handler without the API rule
IsApiRequest_Never(url) == FALSE

\* line 76
IsApiRequest(url) == Includes(url, "api.openai.com")

\* lines 69-81: what the handler does with the event
Route(method, url) ==
  IF IsSkipped(method, url) THEN "skip"
  ELSE IF IsApiRequest(url) THEN "network"
  ELSE "cache-first"

\* a lookup that reads the DYNAMIC namespace alone
CachesMatch_DynamicOnly(names, st, key) ==
  IF DYNAMIC_CACHE \in SeqToSet(names) THEN st[DYNAMIC_CACHE][key] ELSE NoEntry

\* line 82: caches.match(request) looks into every namespace in creation
\* order and answers with the first entry found
RECURSIVE CachesMatch(_, _, _)
CachesMatch(names, st, key) ==
  IF names = <<>> THEN NoEntry
  ELSE IF st[Head(names)][key] # NoEntry THEN st[Head(names)][key]
  ELSE CachesMatch(Tail(names), st, key)

\* a validity check that forgets the status
IsValidResponse_AnyStatus(resp) == resp.type = "basic"

\* a test of the status alone
IsValidResponse_AnyType(resp) == resp.status = StatusOk

\* line 93
IsValidResponse(resp) == resp.status = StatusOk /\ resp.type = "basic"

\* lines 104-108
IsCacheable(url) ==
  \/ OriginOf(url) = Origin
  \/ ArrayIncludes(EXTERNAL_RESOURCES, url)
  \/ ArrayIncludes(STATIC_ASSETS, url)

\* a catch that answers with an offline page instead of throwing
OnFetchRejected_Fallback(error) ==
  [kind |-> "response", resp |-> Resp(StatusOk, "basic", NoTag), err |-> ""]

\* lines 120-126: the catch of the network fetch logs and throws the error on
OnFetchRejected(error) == [kind |-> "error", resp |-> NoEntry, err |-> error]

Answer(resp) == [kind |-> "response", resp |-> resp, err |-> ""]
NetOutcomes(url) ==
  {Answer(r) : r \in NetResponses(url)}
    \cup {[kind |-> "error", resp |-> NoEntry, err |-> e] : e \in NetErrors}

fetchUnchanged ==
  <<swState, instPc, instResult, installFailed, skipWaiting, actPc, actNames,
    actStore, actPending, actFailed, actResult, claimed, controlled, log, rc,
    inbox, bs, reply>>

\* lines 67-81: a fetch event of a page is dispatched to the active worker.
\* A skipped event is over at once: the handler returned without respondWith
\* and the host performs the request as if there were no worker.
FetchEvent(i, req) ==
  /\ swState = "activated" /\ slot[i].pc = "idle"
  /\ slot' = [slot EXCEPT ![i] =
       [IdleSlot EXCEPT !.method = req.method, !.url = req.url,
          !.route = Route(req.method, req.url),
          !.pc = CASE Route(req.method, req.url) = "skip" -> "done"
                   [] Route(req.method, req.url) = "network" -> "api"
                   [] OTHER -> "match"]]
  /\ UNCHANGED <<cacheNames, store>>
  /\ UNCHANGED fetchUnchanged

\* line 77: event.respondWith(fetch(event.request))
ApiFetch(i) ==
  /\ slot[i].pc = "api"
  /\ \E o \in NetOutcomes(slot[i].url) :
       slot' = [slot EXCEPT ![i].net = o, ![i].result = o,
                            ![i].netCalls = @ + 1, ![i].pc = "done"]
  /\ UNCHANGED <<cacheNames, store>>
  /\ UNCHANGED fetchUnchanged

\* lines 82-87
CacheMatch(i) ==
  /\ slot[i].pc = "match"
  /\ LET cachedResponse == CachesMatch(cacheNames, store, slot[i].url)
     IN  slot' = IF cachedResponse # NoEntry
                 THEN [slot EXCEPT ![i].result = Answer(cachedResponse),
                                   ![i].pc = "done"]
                 ELSE [slot EXCEPT ![i].pc = "fetch"]
  /\ UNCHANGED <<cacheNames, store>>
  /\ UNCHANGED fetchUnchanged

\* lines 90-101 and 118-126: fetch(event.request) settles
NetworkFetch(i) ==
  /\ slot[i].pc = "fetch"
  /\ \E o \in NetOutcomes(slot[i].url) :
       IF o.kind = "error"
       THEN /\ slot' = [slot EXCEPT ![i].net = o, ![i].netCalls = @ + 1,
                          ![i].result = OnFetchRejected(o.err),
                          ![i].logged = @ \cup {"Fetch failed"},
                          ![i].pc = "done"]
       ELSE /\ slot' = [slot EXCEPT ![i].net = o, ![i].netCalls = @ + 1,
                          ![i].result = Answer(o.resp),
                          ![i].pc = IF IsValidResponse(o.resp)
                                    THEN "open" ELSE "done"]
  /\ UNCHANGED <<cacheNames, store>>
  /\ UNCHANGED fetchUnchanged

\* lines 101-116: caches.open(DYNAMIC_CACHE) settles; its then calls
\* cache.put and returns without waiting for it; its catch logs
OpenDynamic(i) ==
  /\ slot[i].pc = "open"
  /\ \/ /\ cacheNames' = Opened(cacheNames, DYNAMIC_CACHE)
        /\ slot' = [slot EXCEPT ![i].pc =
                      IF IsCacheable(slot[i].url) THEN "put" ELSE "done"]
     \/ /\ slot' = [slot EXCEPT ![i].storeFail = "open",
                      ![i].logged = @ \cup {"Cache put error"},
                      ![i].pc = "done"]
        /\ UNCHANGED cacheNames
  /\ UNCHANGED store
  /\ UNCHANGED fetchUnchanged

\* a put that leaves an entry alone when the key already has one
PutDynamic_KeepFirst(i) ==
  /\ slot[i].pc = "put"
  /\ \/ /\ store' = [store EXCEPT ![DYNAMIC_CACHE][slot[i].url] =
                       IF @ = NoEntry THEN slot[i].net.resp ELSE @]
        /\ slot' = [slot EXCEPT ![i].pc = "done"]
     \/ /\ slot' = [slot EXCEPT ![i].storeFail = "put",
                      ![i].unhandled = TRUE, ![i].pc = "done"]
        /\ UNCHANGED store
  /\ UNCHANGED cacheNames
  /\ UNCHANGED fetchUnchanged

\* line 111: cache.put(event.request, responseToCache) settles; the promise
\* it returned was dropped, so nothing handles its rejection
PutDynamic(i) ==
  /\ slot[i].pc = "put"
  /\ \/ /\ store' = [store EXCEPT ![DYNAMIC_CACHE][slot[i].url] =
                       slot[i].net.resp]
        /\ slot' = [slot EXCEPT ![i].pc = "done"]
     \/ /\ slot' = [slot EXCEPT ![i].storeFail = "put",
                      ![i].unhandled = TRUE, ![i].pc = "done"]
        /\ UNCHANGED store
  /\ UNCHANGED cacheNames
  /\ UNCHANGED fetchUnchanged

\* the event is over
FetchDone(i) ==
  /\ slot[i].pc = "done"
  /\ slot' = [slot EXCEPT ![i] = IdleSlot]
  /\ UNCHANGED <<cacheNames, store>>
  /\ UNCHANGED fetchUnchanged

NextFetch ==
  \/ \E i \in Slots, req \in Requests : FetchEvent(i, req)
  \/ \E i \in Slots : ApiFetch(i)
  \/ \E i \in Slots : CacheMatch(i)
  \/ \E i \in Slots : NetworkFetch(i)
  \/ \E i \in Slots : OpenDynamic(i)
  \/ \E i \in Slots : PutDynamic(i)
  \/ \E i \in Slots : FetchDone(i)

SpecFetch == Init /\ [][NextFetch]_vars

\* ------------------------------------------------------------ checkForUpdates
\* (the console output of checkForUpdates and doBackgroundSync is left out)

\* fetch(asset) of a URL string: a cors request
CorsOutcomes(url) ==
  {Answer(r) : r \in CorsResponses(url)}
    \cup {[kind |-> "error", resp |-> NoEntry, err |-> e] : e \in NetErrors}

\* a comparison that forgets the missing cached copy
NeedsUpdate_TagOnly(cachedResponse, networkResponse) ==
  networkResponse.etag # cachedResponse.etag

\* lines 227-228; headers.get('etag') of a response without the header is null
NeedsUpdate(cachedResponse, networkResponse) ==
  \/ cachedResponse = NoEntry
  \/ networkResponse.etag # cachedResponse.etag

\* lines 243-246
AssetsUpdated(assets) == [type |-> "ASSETS_UPDATED", assets |-> assets]

\* lines 224-225, for the record of the pass: the asset was fetched, and
\* there is no cached copy of it or one with another token (two absent
\* tokens are equal)
Differs(cachedResponse, outcome) ==
  /\ outcome.kind = "response"
  /\ ~(cachedResponse # NoEntry /\ cachedResponse.etag = outcome.resp.etag)

\* lines 222 and 235-237: on to the next asset, or out of the loop
RcAdvance(r) ==
  [r EXCEPT !.idx = @ + 1,
            !.net = NoResult,
            !.pc = IF r.idx < Len(STATIC_ASSETS) THEN "fetch"
                   ELSE IF r.updatedAssets # <<>> THEN "notify" ELSE "done"]

\* a loop without the try of lines 223-234: the rejection reaches the catch
\* of lines 249-251 and the pass is over
OnAssetFailure_Aborts(r) == [r EXCEPT !.net = NoResult, !.pc = "done"]

\* lines 232-234: the catch inside the loop logs, and the loop goes on
OnAssetFailure(r) == RcAdvance(r)

updUnchanged ==
  <<swState, instPc, instResult, installFailed, skipWaiting, actPc, actNames,
    actStore, actPending, actFailed, actResult, claimed, controlled, log, slot,
    reply>>

\* lines 141-146: a periodicsync event tagged 'update-check'
PeriodicSync ==
  /\ swState = "activated" /\ rc.pc = "idle"
  /\ rc' = [IdleRc EXCEPT !.pc = "open"]
  /\ UNCHANGED <<cacheNames, store, inbox, bs>>
  /\ UNCHANGED updUnchanged

\* lines 219-220 and 249-251: caches.open(STATIC_CACHE)
RcOpen ==
  /\ rc.pc = "open"
  /\ \/ /\ cacheNames' = Opened(cacheNames, STATIC_CACHE)
        /\ rc' = [rc EXCEPT !.pc = "fetch"]
     \/ /\ rc' = [rc EXCEPT !.pc = "done"]
        /\ UNCHANGED cacheNames
  /\ UNCHANGED <<store, inbox, bs>>
  /\ UNCHANGED updUnchanged

\* lines 224-228 and 232-234: fetch(asset), cache.match(asset), the comparison
RcFetchMatch ==
  /\ rc.pc = "fetch"
  /\ LET asset == STATIC_ASSETS[rc.idx]
         cachedResponse == store[STATIC_CACHE][Resolve(asset)]
     IN  \E o \in CorsOutcomes(Resolve(asset)) :
           LET seen == [rc EXCEPT !.differs =
                          IF Differs(cachedResponse, o)
                          THEN Append(@, asset) ELSE @]
           IN  rc' = IF o.kind = "error"
                     THEN OnAssetFailure(
                            [seen EXCEPT !.fetchFailed = Append(@, asset)])
                     ELSE IF NeedsUpdate(cachedResponse, o.resp)
                          THEN [seen EXCEPT !.net = o, !.pc = "put"]
                     ELSE RcAdvance(seen)
  /\ UNCHANGED <<cacheNames, store, inbox, bs>>
  /\ UNCHANGED updUnchanged

\* lines 229-234: cache.put(asset, networkResponse.clone()) settles
RcPut ==
  /\ rc.pc = "put"
  /\ LET asset == STATIC_ASSETS[rc.idx]
     IN  \/ /\ store' = [store EXCEPT ![STATIC_CACHE][Resolve(asset)] =
                           rc.net.resp]
            /\ rc' = RcAdvance([rc EXCEPT !.updatedAssets = Append(@, asset)])
         \/ /\ rc' = OnAssetFailure(
                        [rc EXCEPT !.putFailed = Append(@, asset)])
            /\ UNCHANGED store
  /\ UNCHANGED <<cacheNames, inbox, bs>>
  /\ UNCHANGED updUnchanged

\* lines 237-248: one message to every client clients.matchAll() returns
RcNotify ==
  /\ rc.pc = "notify"
  /\ inbox' = [c \in Clients |->
                 IF c \in controlled
                 THEN Append(inbox[c], AssetsUpdated(rc.updatedAssets))
                 ELSE inbox[c]]
  /\ rc' = [rc EXCEPT !.pc = "done"]
  /\ UNCHANGED <<cacheNames, store, bs>>
  /\ UNCHANGED updUnchanged

\* the pass is over
RcDone ==
  /\ rc.pc = "done"
  /\ rc' = IdleRc
  /\ inbox' = [c \in Clients |-> <<>>]
  /\ UNCHANGED <<cacheNames, store, bs>>
  /\ UNCHANGED updUnchanged

\* ------------------------------------------------------------ doBackgroundSync

\* lines 132-138: a sync event tagged 'background-sync'
SyncEvent ==
  /\ swState = "activated" /\ bs.pc = "idle"
  /\ bs' = [bs EXCEPT !.pc = "open"]
  /\ UNCHANGED <<cacheNames, store, rc, inbox>>
  /\ UNCHANGED updUnchanged

\* lines 206 and 211-213: caches.open(STATIC_CACHE)
BsOpen ==
  /\ bs.pc = "open"
  /\ \/ /\ cacheNames' = Opened(cacheNames, STATIC_CACHE)
        /\ bs' = [bs EXCEPT !.pc = "put"]
     \/ /\ bs' = IdleBs
        /\ UNCHANGED cacheNames
  /\ UNCHANGED <<store, rc, inbox>>
  /\ UNCHANGED updUnchanged

\* lines 207-213: fetch('/') and cache.put('/', response), whatever the
\* response's status; a rejected fetch or put is caught. The response is
\* drawn when the put settles: nothing reads it in between.
BsFetchPut ==
  /\ bs.pc = "put"
  /\ \E o \in CorsOutcomes(Resolve(<<"/">>)) :
       \/ /\ o.kind = "response"
          /\ store' = [store EXCEPT ![STATIC_CACHE][Resolve(<<"/">>)] = o.resp]
       \/ UNCHANGED store
  /\ bs' = IdleBs
  /\ UNCHANGED <<cacheNames, rc, inbox>>
  /\ UNCHANGED updUnchanged

NextUpdate ==
  \/ PeriodicSync
  \/ RcOpen
  \/ RcFetchMatch
  \/ RcPut
  \/ RcNotify
  \/ RcDone
  \/ SyncEvent
  \/ BsOpen
  \/ BsFetchPut

SpecUpdate == Init /\ [][NextUpdate]_vars

\* ------------------------------------------------------------ message

MessageTypes == {"SKIP_WAITING", "GET_VERSION"}

\* an answer that names the namespace of the static assets instead
VersionReply_StaticCache == [version |-> "1.0.0", cacheName |-> STATIC_CACHE]

\* lines 263-266: the answer to GET_VERSION
VersionReply == [version |-> "1.0.0", cacheName |-> CACHE_NAME]

\* lines 255-268: a client posts a message to the worker
Message(type) ==
  /\ swState # "redundant"
  /\ skipWaiting' = IF type = "SKIP_WAITING" THEN TRUE ELSE skipWaiting
  /\ reply' = IF type = "GET_VERSION" THEN VersionReply ELSE reply
  /\ UNCHANGED <<swState, cacheNames, store, instPc, instResult, installFailed,
                 actPc, actNames, actStore, actPending, actFailed, actResult,
                 claimed, controlled, log, slot, rc, inbox, bs>>

NextMessage == \E type \in MessageTypes : Message(type)

\* the message handler beside the install and activate handlers
NextLifecycleMessage == NextLifecycle \/ NextMessage

SpecMessage == Init /\ [][NextLifecycleMessage]_vars

\* ------------------------------------------------------------ specifications

\* Every handler of the worker. SpecLifecycle, SpecFetch and SpecUpdate are
\* the same initial states under one group of handlers each.
Next == NextLifecycle \/ NextFetch \/ NextUpdate \/ NextMessage

Spec == Init /\ [][Next]_vars

\* ------------------------------------------------------------ activation

\* The registries a successful install leaves: what an earlier version left
\* behind, and STATIC with every asset of the manifest.
InstalledRegistries ==
  { [names |-> Opened(r.names, STATIC_CACHE),
     store |-> [r.store EXCEPT ![STATIC_CACHE] = FullStaticCache]] :
      r \in InstallRegistries }

\* the install event has settled and the worker waits to be activated
InitInstalled ==
  /\ swState = "installed"
  /\ instPc = "done" /\ instResult = "fulfilled"
  /\ actPc = "start" /\ actResult = "pending"
  /\ controlled = {}
  /\ \E r \in InstalledRegistries : cacheNames = r.names /\ store = r.store
  /\ installFailed = FALSE
  /\ skipWaiting = TRUE
  /\ actNames = <<>> /\ actStore = EmptyStore
  /\ actPending = {} /\ actFailed = {}
  /\ claimed = FALSE
  /\ log = {}
  /\ slot = [i \in Slots |-> IdleSlot]
  /\ rc = IdleRc
  /\ inbox = [c \in Clients |-> <<>>]
  /\ bs = IdleBs
  /\ reply = NoReply

\* Activation, and events the worker handles once it is active: fetch events
\* one at a time and background syncs, each of which opens its namespace.
NextActivation ==
  \/ HostActivate
  \/ ActivateKeys
  \/ \E n \in AllNames : ActivateDelete(n)
  \/ ActivateClaim
  \/ HostActivated
  \/ \E req \in Requests : FetchEvent(1, req)
  \/ ApiFetch(1)
  \/ CacheMatch(1)
  \/ NetworkFetch(1)
  \/ OpenDynamic(1)
  \/ PutDynamic(1)
  \/ FetchDone(1)
  \/ SyncEvent
  \/ BsOpen
  \/ BsFetchPut

SpecActivation == InitInstalled /\ [][NextActivation]_vars

\* ------------------------------------------------------------ properties

Existing == SeqToSet(cacheNames)
Hosts(url) == url[2]
IsApiOrigin(url) == Hosts(url) = "api.openai.com"
IsExtensionOrigin(url) == url[1] = "chrome-extension://"
Busy(i) == slot[i].pc # "idle"

\* C1: an intercepted request whose key has an entry in some namespace when
\* caches.match looks it up is answered with an entry stored for that key,
\* and the event makes no network call.
C1_CacheHitServedWithoutNetwork ==
  [][\A i \in Slots :
       (/\ slot[i].pc = "match" /\ slot'[i].pc # "match"
        /\ \E n \in Existing : store[n][slot[i].url] # NoEntry)
       => /\ slot'[i].pc = "done"
          /\ slot'[i].result.kind = "response"
          /\ \E n \in Existing :
               /\ store[n][slot[i].url] # NoEntry
               /\ slot'[i].result.resp = store[n][slot[i].url]
          /\ slot'[i].netCalls = 0]_vars

C1_Witness ==
  \E i \in Slots :
    /\ slot[i].pc = "done" /\ slot[i].route = "cache-first"
    /\ slot[i].result.kind = "response" /\ slot[i].netCalls = 0
    /\ slot[i].result.resp = store[STATIC_CACHE][slot[i].url]

\* C2: on a cache miss, a network response that is not status 200 or not of
\* type basic is returned as it is, the event ends without opening or writing
\* a namespace, and the step changes no namespace; only valid responses ever
\* reach the open and the put.
C2_InvalidResponseNotStored ==
  /\ [](\A i \in Slots :
          slot[i].pc \in {"open", "put"} =>
            slot[i].net.resp.status = 200 /\ slot[i].net.resp.type = "basic")
  /\ [][\A i \in Slots :
          (/\ slot[i].pc = "fetch" /\ slot'[i].net.kind = "response"
           /\ ~(slot'[i].net.resp.status = 200
                  /\ slot'[i].net.resp.type = "basic"))
          => /\ slot'[i].pc = "done"
             /\ slot'[i].result = slot'[i].net
             /\ store' = store
             /\ cacheNames' = cacheNames]_vars

C2_Witness ==
  \E i \in Slots :
    /\ slot[i].pc = "done" /\ slot[i].route = "cache-first"
    /\ slot[i].net.kind = "response" /\ slot[i].net.resp.status = 404
    /\ slot[i].result = slot[i].net
    /\ store[DYNAMIC_CACHE][slot[i].url] = NoEntry

\* C3: when every delete succeeded, the registry at the end of activation is
\* the set of names caches.keys() returned intersected with {STATIC_CACHE,
\* DYNAMIC_CACHE}, and the kept namespaces hold the entries they held.
C3_ActivationKeepsOnlyCurrent ==
  (swState = "activating" /\ actResult = "fulfilled") =>
     /\ Existing = SeqToSet(actNames) \cap {STATIC_CACHE, DYNAMIC_CACHE}
     /\ \A n \in Existing : store[n] = actStore[n]

C3_Witness ==
  /\ swState = "activating" /\ actResult = "fulfilled"
  /\ OldStatic \in SeqToSet(actNames)
  /\ DYNAMIC_CACHE \in SeqToSet(actNames)
  /\ Existing = {STATIC_CACHE, DYNAMIC_CACHE}

\* C4: when opening the STATIC namespace or fetching or storing a manifest
\* asset fails, the install outcome given to the host is a failure and the
\* worker never becomes installed, activating or activated.
C4_FailedInstallNeverActivates ==
  installFailed =>
     /\ instResult # "fulfilled"
     /\ swState \in {"installing", "redundant"}

\* C5 as amended: at the end of a pass, updatedAssets lists, in manifest
\* order, exactly the assets that were fetched, had no cached copy or one
\* with another token, and whose cache.put succeeded; a successful put
\* overwrites the STATIC entry with the network response; and each client
\* clients.matchAll() returns has received one ASSETS_UPDATED message with
\* that list when it is not empty, and every other client, or every client
\* when it is empty, none.
C5_UpdatedSetAndOneBroadcast ==
  /\ [](rc.pc \in {"notify", "done"} =>
          rc.updatedAssets =
            SelectSeq(rc.differs, LAMBDA a : ~ArrayIncludes(rc.putFailed, a)))
  /\ [](rc.pc = "done" =>
          \A c \in Clients :
            inbox[c] = IF c \in controlled /\ rc.updatedAssets # <<>>
                       THEN <<AssetsUpdated(rc.updatedAssets)>>
                       ELSE <<>>)
  /\ [][(rc.pc = "put" /\ Len(rc'.updatedAssets) > Len(rc.updatedAssets))
          => store'[STATIC_CACHE][Resolve(STATIC_ASSETS[rc.idx])]
               = rc.net.resp]_vars

C5_Witness ==
  /\ rc.pc = "done"
  /\ rc.updatedAssets = << <<"/", "manifest.json">> >>
  /\ rc.differs = rc.updatedAssets
  /\ \A c \in controlled :
       inbox[c] = <<AssetsUpdated(<< <<"/", "manifest.json">> >>)>>

\* C5 as claimed: the updated set is exactly the assets that were fetched and
\* had no cached copy or one with another token.
C5_UpdatedIsEveryDifferingAsset ==
  rc.pc \in {"notify", "done"} => rc.updatedAssets = rc.differs

\* C6: when the network fetch of a cache miss fails, the event's result is
\* the error the network produced, and the step changes no namespace.
C6_NetworkErrorPropagates ==
  /\ [](\A i \in Slots :
          (slot[i].route = "cache-first" /\ slot[i].net.kind = "error") =>
            slot[i].pc = "done" /\ slot[i].result = slot[i].net)
  /\ [][\A i \in Slots :
          (slot[i].pc = "fetch" /\ slot'[i].net.kind = "error") =>
            store' = store /\ cacheNames' = cacheNames]_vars

C6_Witness ==
  \E i \in Slots :
    /\ slot[i].pc = "done" /\ slot[i].route = "cache-first"
    /\ slot[i].net.kind = "error" /\ slot[i].result.err = "AbortError"

\* C7: when opening the DYNAMIC namespace or the put into it fails, the
\* caller has the network response, the failure is logged and nothing is
\* left unhandled.
C7_StoreFailureLoggedAndSwallowed ==
  \A i \in Slots :
    slot[i].storeFail # "none" =>
      /\ slot[i].result = slot[i].net /\ slot[i].result.kind = "response"
      /\ "Cache put error" \in slot[i].logged
      /\ ~slot[i].unhandled

\* C8: no namespace ever holds an entry for a URL of api.openai.com; a
\* request to that origin, and a request that is not a GET, never reaches the
\* cache lookup, the open or the put; and what the worker answers to an API
\* request is what its one network call produced.
C8_ApiAndNonGetBypassCache ==
  /\ \A n \in AllNames, k \in AllUrls :
       store[n][k] # NoEntry => ~IsApiOrigin(k)
  /\ \A i \in Slots :
       (Busy(i) /\ (IsApiOrigin(slot[i].url) \/ slot[i].method # "GET")) =>
         /\ slot[i].pc \in {"api", "done"}
         /\ slot[i].route # "cache-first"
         /\ slot[i].result.kind # "none" =>
              slot[i].result = slot[i].net /\ slot[i].netCalls = 1

C8_Witness ==
  \E i \in Slots :
    /\ slot[i].pc = "done" /\ slot[i].method = "GET"
    /\ IsApiOrigin(slot[i].url)
    /\ slot[i].result.kind = "response" /\ slot[i].netCalls = 1

\* C9: a request is skipped or sent straight to the network if and only if
\* it is not a GET, or targets the extension origin, or targets the API
\* origin; every other GET is handled cache-first.
C9_SkippedIffNonGetExtensionOrApi ==
  \A i \in Slots :
    Busy(i) =>
      (slot[i].route # "cache-first"
         <=> \/ slot[i].method # "GET"
             \/ IsExtensionOrigin(slot[i].url)
             \/ IsApiOrigin(slot[i].url))

\* C10: when a delete failed during activation, the failure is logged, every
\* other stale namespace is deleted, the clients are claimed and the worker
\* is activated.
C10_DeleteFailureNonFatal ==
  (actFailed # {} /\ actPending = {} /\ swState = "activated") =>
     /\ "Delete failed" \in log
     /\ \A n \in SeqToSet(actNames) :
          (n \notin {STATIC_CACHE, DYNAMIC_CACHE} /\ n \notin actFailed) =>
            n \notin Existing
     /\ claimed

\* the assets of STATIC_ASSETS the running pass has fetched and compared
Visited == {STATIC_ASSETS[i] : i \in 1..(rc.idx - 1)}

\* C11: in a reconciliation pass, the step in which the fetch or the put of
\* an asset fails changes no namespace and no entry, records nothing as
\* updated, and goes on to the next asset of the manifest, or leaves the
\* loop after the last one; so a pass that has entered the loop ends with
\* every asset visited, no failed asset in updatedAssets, and its broadcast
\* lists the assets that were updated.
C11_AssetFailureDoesNotAbortPass ==
  /\ [][(\/ Len(rc'.fetchFailed) > Len(rc.fetchFailed)
         \/ Len(rc'.putFailed) > Len(rc.putFailed))
          => /\ store' = store /\ cacheNames' = cacheNames
             /\ rc'.updatedAssets = rc.updatedAssets
             /\ rc'.idx = rc.idx + 1
             /\ rc'.pc = IF rc.idx < Len(STATIC_ASSETS) THEN "fetch"
                         ELSE IF rc.updatedAssets # <<>> THEN "notify"
                         ELSE "done"]_vars
  /\ []((rc.pc \in {"notify", "done"}
           /\ Len(rc.fetchFailed) + Len(rc.putFailed) > 0) =>
          /\ Visited = SeqToSet(STATIC_ASSETS)
          /\ \A a \in SeqToSet(rc.fetchFailed) \cup SeqToSet(rc.putFailed) :
               ~ArrayIncludes(rc.updatedAssets, a)
          /\ (rc.pc = "done" /\ rc.updatedAssets # <<>>) =>
               \A c \in controlled :
                 inbox[c] = <<AssetsUpdated(rc.updatedAssets)>>)

\* the first asset's fetch failed, the second's put failed, and the third
\* was updated and broadcast
C11_Witness ==
  /\ rc.pc = "done"
  /\ rc.fetchFailed = << STATIC_ASSETS[1] >>
  /\ rc.putFailed = << STATIC_ASSETS[2] >>
  /\ rc.updatedAssets = << STATIC_ASSETS[3] >>
  /\ \A c \in controlled :
       inbox[c] = <<AssetsUpdated(<< STATIC_ASSETS[3] >>)>>

\* C12: the answer to GET_VERSION is, in every state the worker can be in,
\* the record {version "1.0.0", cacheName "logo-package-generator-v1.0.0"},
\* and the step that gives it changes no namespace, no entry and nothing of
\* the install and activate handlers' state.
C12_VersionReplyIsConstant ==
  /\ [](reply # NoReply =>
          reply = [version |-> "1.0.0",
                   cacheName |-> "logo-package-generator-v1.0.0"])
  /\ [][reply' # reply =>
          /\ reply' = [version |-> "1.0.0",
                       cacheName |-> "logo-package-generator-v1.0.0"]
          /\ store' = store /\ cacheNames' = cacheNames
          /\ swState' = swState /\ skipWaiting' = skipWaiting
          /\ <<instPc, instResult, actPc, actPending, actResult, claimed>>'
               = <<instPc, instResult, actPc, actPending, actResult, claimed>>
       ]_vars

\* the answer given while stale namespaces are being deleted
C12_Witness ==
  /\ reply = [version |-> "1.0.0",
              cacheName |-> "logo-package-generator-v1.0.0"]
  /\ swState = "activating" /\ actPending # {} /\ actFailed # {}
  /\ store[STATIC_CACHE][RootUrl] # NoEntry

\* the step of a pass that fetched the asset at rc.idx and left it as it is
LeftUnrefreshed ==
  /\ rc.pc = "fetch" /\ rc'.idx = rc.idx + 1
  /\ Len(rc'.fetchFailed) = Len(rc.fetchFailed)

\* C13, a rejected put set aside: an asset whose token is missing on either
\* side is refreshed, so an asset that was fetched and left unrefreshed has a
\* cached copy whose token is present.
C13_AbsentTokenAlwaysRefreshed ==
  [][LeftUnrefreshed =>
       LET cached == store[STATIC_CACHE][Resolve(STATIC_ASSETS[rc.idx])]
       IN  cached # NoEntry /\ cached.etag # NoTag]_vars

\* C14: a pass that has gone through its loop has fetched and compared
\* every asset the install step stored in STATIC.
C14_PassVisitsEveryInstalledAsset ==
  (rc.pc \in {"notify", "done"} /\ rc.idx > 1) =>
     {Resolve(a) : a \in Visited} = ManifestKeys

\* every asset of the manifest has an ok response stored in STATIC
AllStored ==
  /\ STATIC_CACHE \in Existing
  /\ \A k \in ManifestKeys :
       store[STATIC_CACHE][k] # NoEntry /\ IsOk(store[STATIC_CACHE][k])

\* C15: the install step signals skipWaiting only in the step that follows
\* a cache.addAll which stored every asset of the manifest; an install that
\* stored them all does not settle without having signalled it; and an
\* install in which opening the namespace or an asset failed never signals
\* it.
C15_SkipWaitingOnlyAfterAllStored ==
  /\ [][(skipWaiting' /\ ~skipWaiting) =>
          /\ instPc = "added" /\ instPc' = "done"
          /\ AllStored /\ ~installFailed]_vars
  /\ [](instPc = "added" => AllStored /\ ~skipWaiting)
  /\ []((swState = "installing" /\ instPc = "done" /\ ~installFailed)
          => skipWaiting)
  /\ [](installFailed => ~skipWaiting)

\* the install stored everything and has signalled skipWaiting
C15_Witness ==
  /\ swState = "installing" /\ instPc = "done"
  /\ skipWaiting /\ AllStored
  /\ store[STATIC_CACHE][WoffUrl].etag = NoTag

CurrentNames == {STATIC_CACHE, DYNAMIC_CACHE}

HasWritten(i) ==
  /\ slot[i].pc = "done" /\ slot[i].route = "cache-first"
  /\ slot[i].net.kind = "response" /\ IsValidResponse(slot[i].net.resp)
  /\ IsCacheable(slot[i].url) /\ slot[i].storeFail = "none"

\* C17: concurrent interceptions that miss the cache each make one network
\* request of their own and answer with the response it got; a fulfilled
\* put leaves the key's DYNAMIC entry equal to the response of the event
\* that made it, whatever was there, and nothing else changes the entry: so
\* when two events for one key have both written, the key has the one entry
\* of whichever put was fulfilled last.
C17_ConcurrentMissesLastPutWins ==
  /\ [](\A i \in Slots :
          (slot[i].route = "cache-first" /\ slot[i].net.kind = "response") =>
             slot[i].netCalls = 1 /\ slot[i].result = Answer(slot[i].net.resp))
  /\ [][\A i \in Slots :
          (slot[i].pc = "put" /\ slot'[i].pc = "done"
             /\ slot'[i].storeFail = "none") =>
            store' = [store EXCEPT ![DYNAMIC_CACHE][slot[i].url] =
                        slot[i].net.resp]]_vars
  /\ [][store' # store =>
          \E i \in Slots : slot[i].pc = "put" /\ slot'[i].pc = "done"]_vars
  /\ []((HasWritten(1) /\ HasWritten(2) /\ slot[1].url = slot[2].url) =>
          store[DYNAMIC_CACHE][slot[1].url]
            \in {slot[1].net.resp, slot[2].net.resp})

\* two events for one key got different responses and both wrote; the entry
\* is the response of the second slot, whose put came last
C17_Witness ==
  /\ HasWritten(1) /\ HasWritten(2)
  /\ slot[1].url = DataUrl /\ slot[2].url = DataUrl
  /\ slot[1].net.resp # slot[2].net.resp
  /\ store[DYNAMIC_CACHE][DataUrl] = slot[2].net.resp

\* C18: a step of the fetch handler that changes the registry's entries is
\* the put of one event: a GET that was not skipped and not sent to the API,
\* whose network response has status 200 and is not opaque, and whose URL is
\* same-origin or listed in STATIC_ASSETS or EXTERNAL_RESOURCES; it sets
\* that key of DYNAMIC to the response and nothing else. No step removes an
\* entry or a namespace.
C18_RouterWritesOnlyValidGetToDynamic ==
  /\ [][store' # store =>
          \E i \in Slots :
            /\ slot[i].pc = "put"
            /\ slot[i].method = "GET"
            /\ ~IsSkipped(slot[i].method, slot[i].url)
            /\ ~IsApiOrigin(slot[i].url)
            /\ slot[i].net.resp.status = 200
            /\ slot[i].net.resp.type # "opaque"
            /\ \/ OriginOf(slot[i].url) = Origin
               \/ slot[i].url \in ManifestKeys
            /\ store' = [store EXCEPT ![DYNAMIC_CACHE][slot[i].url] =
                           slot[i].net.resp]
            /\ store'[STATIC_CACHE] = store[STATIC_CACHE]]_vars
  /\ [][/\ Existing \subseteq Existing'
        /\ \A n \in AllNames, k \in AllUrls :
             store[n][k] # NoEntry => store'[n][k] # NoEntry]_vars

\* a GET of '/' missed an empty STATIC and its response was put in DYNAMIC
C18_Witness ==
  \E i \in Slots :
    /\ HasWritten(i) /\ slot[i].method = "GET" /\ slot[i].url = RootUrl
    /\ store[DYNAMIC_CACHE][RootUrl] = slot[i].net.resp
    /\ store[STATIC_CACHE][RootUrl] = NoEntry

\* C19: every entry of DYNAMIC is for a same-origin URL and only events for
\* same-origin URLs get as far as opening DYNAMIC; an event for a
\* cross-origin URL of the manifest that missed the cache ends with nothing
\* stored for it.
C19_RouterStoresSameOriginOnly ==
  /\ \A k \in AllUrls :
       store[DYNAMIC_CACHE][k] # NoEntry => OriginOf(k) = Origin
  /\ \A i \in Slots :
       /\ slot[i].pc \in {"open", "put"} => OriginOf(slot[i].url) = Origin
       /\ (/\ slot[i].route = "cache-first" /\ slot[i].net.kind = "response"
           /\ OriginOf(slot[i].url) # Origin) =>
            /\ slot[i].pc = "done"
            /\ store[DYNAMIC_CACHE][slot[i].url] = NoEntry

\* the font css of STATIC_ASSETS missed the cache, was fetched with status
\* 200 and was not stored
C19_Witness ==
  \E i \in Slots :
    /\ slot[i].pc = "done" /\ slot[i].route = "cache-first"
    /\ slot[i].url = CdnCssUrl
    /\ slot[i].net.resp.status = StatusOk
    /\ store[DYNAMIC_CACHE][CdnCssUrl] = NoEntry

\* C20: every entry of the STATIC namespace holds a response of status 200.
C20_StaticEntriesAreStatus200 ==
  \A k \in AllUrls :
    store[STATIC_CACHE][k] # NoEntry =>
      store[STATIC_CACHE][k].status = StatusOk

====
